---- MODULE Spec2Model ----
(***************************************************************************)
(* VS_ModsUpdater: one run of main(args) of src/VS_ModsUpdater.py.         *)
(*                                                                         *)
(* Spec      the whole run: VSUpdate.__init__, mods_exclusion, mods_list,  *)
(*           update_mods (one action per iteration of its loop), resume    *)
(*           and the PDF part of main.                                     *)
(* SpecGate  the update decision of update_mods (lines 610-651) as a pure  *)
(*           function of the local version, the API release and the        *)
(*           settings, applied to every input of the bounded sets.         *)
(* SpecPass  unattended runs of Spec under weak fairness, for the end of   *)
(*           the pass of update_mods.                                      *)
(* SpecPdf   several runs on one installation, for what they leave in      *)
(*           temp/csvtemp.csv and put in the PDF.                          *)
(***************************************************************************)
EXTENDS Integers, Sequences, FiniteSets, TLC

VARIABLES
    pc,                      \* position of the run in main / update_mods
    argv,                    \* the command line as typed (flags given or not)
    configfile,              \* config.ini on disk: NoFile or its content
    folder,                  \* mods folder: file of each mod ("old", "new", "none";
                             \* "bad": an old file without name or version in modinfo.json)
    force_update,            \* self.force_update
    disable_mod_dev,         \* self.disable_mod_dev
    gamever_limit,           \* self.gamever_limit
    mods_exclu,              \* self.mods_exclu
    liste_mod_maj_filename,  \* self.liste_mod_maj_filename
    idx,                     \* position of the for loop of update_mods
    visited,                 \* files the loop of update_mods has handled, in order
    attempted,               \* files whose download branch (line 652) was entered
    removed,                 \* files os.remove (line 676) deleted
    requests,                \* HTTP requests sent for each file by update_mods
    errlog,                  \* files for which the loop logged an error
    failed,                  \* files whose iteration ended in an except clause
    mods_updated,            \* self.mods_updated
    nb_maj,                  \* self.nb_maj
    waits,                   \* points where the run waited for the user
    pdf,                     \* PDF part of main: csv rows written, makepdf called
    gate                     \* SpecGate: inputs and result of the update decision

vars == <<pc, argv, configfile, folder, force_update, disable_mod_dev,
          gamever_limit, mods_exclu, liste_mod_maj_filename, idx, visited,
          attempted, removed, requests, errlog, failed, mods_updated, nb_maj,
          waits, pdf, gate>>

-----------------------------------------------------------------------------
(* Bounds of the model *)

MaxTags == 2        \* game-version tags of a release
MaxExclusion == 1   \* names given with --exclusion / entries filled in config.ini

\* the mod files the folder can hold, by name
Mods == {"a.zip", "B.zip"}

\* s.casefold() order of the names (line 587): "a.zip" < "b.zip"
CasefoldBefore(f, g) == f = "a.zip" /\ g = "B.zip"

\* plain string order of the names (line 560): "B" < "a"
PlainBefore(f, g) == f = "B.zip" /\ g = "a.zip"

-----------------------------------------------------------------------------
(* Version strings *)

\* A mod version "n.0.0" (pre FALSE) or "n.0.0-rc.1" (pre TRUE); valid FALSE
\* is a string semver rejects.
ModVer(n, pre) == [valid |-> TRUE, n |-> n, pre |-> pre]

BadVersion == [valid |-> FALSE, n |-> 0, pre |-> FALSE]

LocalVersions == {ModVer(1, FALSE), ModVer(2, FALSE), BadVersion}

OnlineVersions == {ModVer(1, FALSE), ModVer(2, TRUE), ModVer(2, FALSE), BadVersion}

\* A game version string is the sequence of its dot-separated elements; an
\* element is <<z, k>>: the number k, written "0k" when z.
Elem(k) == <<FALSE, k>>

GameVer(n) == <<Elem(1), Elem(n), Elem(0)>>          \* "1.n.0"

GameVerZero(n) == <<Elem(1), <<TRUE, n>>, Elem(0)>>  \* "1.0n.0"

GameVerShort(n) == <<Elem(1), Elem(n)>>              \* "1.n"

DefaultLimit == <<Elem(100), Elem(0), Elem(0)>>      \* "100.0.0"

\* A tag of a release: "v" + version (v TRUE), or a string without any "v".
Tag(g) == [v |-> TRUE, ver |-> g]

NoVTag == [v |-> FALSE, ver |-> GameVer(1)]

Tags == {Tag(GameVer(1)), Tag(GameVer(3)), Tag(GameVerZero(1)),
         Tag(GameVerShort(1)), NoVTag}

RECURSIVE SeqsUpTo(_, _)
SeqsUpTo(S, n) ==
    IF n = 0 THEN {<<>>}
    ELSE LET shorter == SeqsUpTo(S, n - 1)
         IN  shorter \cup {Append(s, x) : s \in {t \in shorter : Len(t) = n - 1}, x \in S}

TagLists == SeqsUpTo(Tags, MaxTags)

Limits == {GameVer(2), DefaultLimit, GameVerShort(2)}

-----------------------------------------------------------------------------
(* Version comparison *)

NoCompver == 9   \* compver = "": the comparison raised and was logged

\* semver.compare of two valid versions: -1, 0 or 1; a prerelease is lower
\* than its release.
semver_compare(a, b) ==
    IF a.n < b.n THEN -1
    ELSE IF a.n > b.n THEN 1
    ELSE IF a.pre = b.pre THEN 0
    ELSE IF a.pre THEN -1 ELSE 1

\* compversion_local: "" when semver.compare raises
compversion_local(ver_loc, ver_online) ==
    IF ~ver_loc.valid \/ ~ver_online.valid THEN NoCompver
    ELSE semver_compare(ver_loc, ver_online)

\* verif_formatversion on one string: strips the zero of a "0k" element and
\* keeps the first three elements; raises IndexError when there are fewer.
verif_formatversion(v) ==
    IF Len(v) < 3 THEN [raised |-> TRUE, val |-> <<>>]
    ELSE [raised |-> FALSE,
          val |-> [i \in 1..3 |-> IF v[i][1] THEN <<FALSE, v[i][2]>> ELSE v[i]]]

\* semver.compare of two normalised game versions
CompareElems(a, b) ==
    LET d == {i \in 1..3 : a[i][2] # b[i][2]}
    IN  IF d = {} THEN 0
        ELSE LET i == CHOOSE j \in d : \A k \in d : j <= k
             IN  IF a[i][2] < b[i][2] THEN -1 ELSE 1

\* compversion_first_min_version(self.gamever_limit, first_min_ver): compares
\* first_min_ver with the limit; "" when anything raises (first_min_ver is
\* None, a string has fewer than three elements)
compversion_first_min_version(ver_locale, fmv) ==
    IF fmv.none THEN NoCompver
    ELSE LET v1 == verif_formatversion(fmv.val)
             v2 == verif_formatversion(ver_locale)
         IN  IF v1.raised \/ v2.raised THEN NoCompver
             ELSE CompareElems(v1.val, v2.val)

\* the loop of lines 632-635: every tag overwrites first_min_ver, so the last
\* one stays; a tag without "v" raises IndexError; None without tags
first_min_ver(tags) ==
    [raised |-> \E i \in 1..Len(tags) : ~tags[i].v,
     none   |-> Len(tags) = 0,
     val    |-> IF Len(tags) = 0 THEN <<>> ELSE tags[Len(tags)].ver]

-----------------------------------------------------------------------------
(* The update decision of update_mods, lines 610-651 *)

\* Decision without the force_update clause of lines 649-650
DecisionForceNotTested(dmd, force, limit, version_locale, online, tags) ==
    IF ~online.valid THEN "exception"
    ELSE IF dmd = "false" \/ ~online.pre
    THEN LET fmv == first_min_ver(tags)
         IN  IF fmv.raised THEN "exception"
             ELSE IF compversion_first_min_version(limit, fmv) \in {-1, 0}
                     /\ compversion_local(version_locale, online) = -1
                  THEN "download"
                  ELSE "skip"
    ELSE "skip"

\* "download": line 652 is reached; "skip": it is not; "exception": a
\* statement raised and the except clauses of lines 692-712 take over.
Decision(dmd, force, limit, version_locale, online, tags) ==
    IF ~online.valid THEN "exception"                \* semver.Version.parse
    ELSE IF dmd = "false" \/ ~online.pre
    THEN LET fmv == first_min_ver(tags)
             result_compversion_local == compversion_local(version_locale, online)
             result_game_compare_version == compversion_first_min_version(limit, fmv)
         IN  IF fmv.raised THEN "exception"
             ELSE IF result_game_compare_version \in {-1, 0}
                     /\ (result_compversion_local = -1
                         \/ (result_compversion_local = 0 /\ force = "true"))
                  THEN "download"
                  ELSE "skip"
    ELSE "skip"

-----------------------------------------------------------------------------
(* Command line and config.ini *)

NotGiven == "<not given>"

Booleans == {"false", "true"}     \* choices=["false", "true"] of the arguments

\* --exclusion: the names given, <<>> when the argument is absent (None)
ExclusionArgs == SeqsUpTo(Mods, MaxExclusion)

CommandLines ==
    [nopause : Booleans, makepdf : Booleans,
     forceupdate : Booleans \cup {NotGiven},
     disable_mod_dev : Booleans \cup {NotGiven},
     exclusion : ExclusionArgs]

\* argParser.parse_args(): an absent choice argument takes its default "false"
args ==
    [nopause |-> argv.nopause, makepdf |-> argv.makepdf,
     forceupdate |-> IF argv.forceupdate = NotGiven THEN "false" ELSE argv.forceupdate,
     disable_mod_dev |-> IF argv.disable_mod_dev = NotGiven THEN "false"
                         ELSE argv.disable_mod_dev,
     exclusion |-> argv.exclusion]

EmptyEntry == ""         \* the value of an unused option mod<i> of [Mod_Exclusion]

DefaultSlots == 10       \* mod1..mod10 written when --exclusion is absent

NoFile ==
    [exists |-> FALSE, force_update |-> "false", disable_mod_dev |-> "false",
     version |-> DefaultLimit, exclusion |-> <<>>]

\* a list of names followed by empty options, as a user fills the file
Padded(names) == names \o [i \in 1..(DefaultSlots - Len(names)) |-> EmptyEntry]

ConfigFiles ==
    [exists : {TRUE}, force_update : Booleans, disable_mod_dev : Booleans,
     version : Limits,
     exclusion : {Padded(n) : n \in SeqsUpTo(Mods, MaxExclusion)}]

\* set_config_ini: the file a first launch writes
set_config_ini ==
    [exists |-> TRUE, force_update |-> "false", disable_mod_dev |-> "false",
     version |-> DefaultLimit,
     exclusion |-> IF args.exclusion # <<>> THEN args.exclusion ELSE Padded(<<>>)]

\* a Python string is true in a condition unless it is empty
Truthy(str) == str # ""

-----------------------------------------------------------------------------
(* State at the start of main *)

NoGate ==
    [dmd |-> "false", force |-> "false", limit |-> DefaultLimit,
     version_locale |-> BadVersion, online |-> BadVersion, tags |-> <<>>,
     game |-> NoCompver, result |-> "idle"]

\* no row of any file
NoRows == [m \in Mods |-> 0]

\* the catalog: the answer to the makePDF prompt ("None" when not asked), the
\* rows written to the csv by the run, makepdf called, the PDF file written,
\* the rows of temp/csvtemp.csv for every file name (csv) and the rows of the
\* table of the PDF (table)
NoPdf == [make_pdf |-> "None", rows |-> 0, called |-> FALSE, written |-> FALSE,
          csv |-> NoRows, table |-> NoRows]

\* requests sent for a mod: to its API URL, to its download link and to its
\* page of the mod database
NoRequests == [api |-> 0, file |-> 0, page |-> 0]

\* no entry of self.mods_updated for a mod
NotUpdated == [set |-> FALSE, old |-> BadVersion, new |-> BadVersion, log |-> "none"]

Fresh ==
    /\ force_update = "unset"
    /\ disable_mod_dev = "unset"
    /\ gamever_limit = DefaultLimit
    /\ mods_exclu = <<>>
    /\ liste_mod_maj_filename = <<>>
    /\ idx = 0
    /\ visited = <<>>
    /\ attempted = {}
    /\ removed = {}
    /\ requests = [m \in Mods |-> NoRequests]
    /\ errlog = {}
    /\ failed = {}
    /\ mods_updated = [m \in Mods |-> NotUpdated]
    /\ nb_maj = 0
    /\ waits = {}
    /\ pdf = NoPdf

Init ==
    /\ pc = "start"
    /\ argv \in CommandLines
    /\ configfile \in ConfigFiles \cup {NoFile}
    /\ folder \in [Mods -> {"old", "bad", "none"}]
    /\ gate = NoGate
    /\ Fresh

-----------------------------------------------------------------------------
(* VSUpdate.__init__, lines 85-248 *)

\* A first launch (no config.ini) asks for the language and whether to go on
\* unless --nopause true, and writes config.ini; then the settings are loaded.
VSUpdate_init ==
    /\ pc = "start"
    /\ \E maj_ok \in {"yes", "no"} :
         LET first   == ~configfile.exists
             asks    == first /\ args.nopause = "false"
             written == IF first THEN set_config_ini ELSE configfile
         IN  /\ configfile' = written
             /\ waits' = IF asks
                         THEN waits \cup {"first_launch_lang_choice", "first_launch3"}
                         ELSE waits
             /\ IF asks /\ maj_ok = "no"
                THEN /\ pc' = "exit190"                    \* sys.exit(), line 190
                     /\ pdf' = [pdf EXCEPT !.csv = NoRows]  \* rmtree, line 189
                     /\ force_update' = written.force_update
                     /\ disable_mod_dev' = written.disable_mod_dev
                     /\ UNCHANGED gamever_limit
                ELSE /\ pc' = "modspath"
                     /\ pdf' = pdf
                     /\ gamever_limit' = written.version
                     /\ force_update' =
                            IF Truthy(args.forceupdate) THEN args.forceupdate
                            ELSE written.force_update
                     /\ disable_mod_dev' =
                            IF Truthy(args.disable_mod_dev) THEN args.disable_mod_dev
                            ELSE written.disable_mod_dev
    /\ UNCHANGED <<argv, folder, mods_exclu, liste_mod_maj_filename, idx, visited,
                   attempted, removed, requests, errlog, failed, mods_updated, nb_maj,
                   gate>>

(* main, lines 962-973, and VSUpdate.accueil *)

\* Without a usable --modspath main reads "config.ini" of the working
\* directory and raises NoSectionError when it is not there; accueil raises
\* OSError when there is no terminal (os.get_terminal_size, line 541).
main_modspath ==
    /\ pc = "modspath"
    /\ \E modspath_given \in BOOLEAN, cwd_config \in BOOLEAN, terminal \in BOOLEAN :
         pc' = IF ~(modspath_given \/ cwd_config) THEN "crash969"
               ELSE IF ~terminal THEN "crash541"
               ELSE "mods_exclusion"
    /\ UNCHANGED <<argv, configfile, folder, force_update, disable_mod_dev,
                   gamever_limit, mods_exclu, liste_mod_maj_filename, idx, visited,
                   attempted, removed, requests, errlog, failed, mods_updated,
                   nb_maj, waits, pdf, gate>>

(* VSUpdate.mods_exclusion, lines 553-569 *)

\* the non-empty options mod1..modN of [Mod_Exclusion], sorted
ExclusionEntries(cfg) ==
    SortSeq(SelectSeq(cfg.exclusion, LAMBDA e : e # EmptyEntry), PlainBefore)

mods_exclusion ==
    /\ pc = "mods_exclusion"
    /\ mods_exclu' = ExclusionEntries(configfile)
    /\ pc' = "mods_list"
    /\ UNCHANGED <<argv, configfile, folder, force_update, disable_mod_dev,
                   gamever_limit, liste_mod_maj_filename, idx, visited,
                   attempted, removed, requests, errlog, failed, mods_updated, nb_maj,
                   waits, pdf, gate>>

(* VSUpdate.mods_list and liste_complete_mods, lines 408-426 and 571-583 *)

RECURSIVE Orders(_)
\* the orders in which glob can list a set of files
Orders(S) ==
    IF S = {} THEN {<<>>}
    ELSE UNION {{<<x>> \o o : o \in Orders(S \ {x})} : x \in S}

Range(seq) == {seq[i] : i \in 1..Len(seq)}

\* mods_list without the removal of lines 575-579
WithoutExcludedKeepsAll(files, exclu) == files

\* lines 575-579: every excluded name is removed from the list
WithoutExcluded(files, exclu) == SelectSeq(files, LAMBDA f : f \notin Range(exclu))

\* extract_modinfo on a file whose modinfo.json has no name or no version:
\* group(1) of line 363 or 369 raises on None; json_correction raises too
\* (group(2) of a pattern with one group, lines 314-323, or the attribute that
\* was never set, line 327); lines 387-388 log the error, and line 406 raises
\* UnboundLocalError on the names that were not assigned.
ModinfoRaises(file) == folder[file] = "bad"

\* the first file of a list that makes extract_modinfo raise, as a set
FirstRaising(files) ==
    {files[i] : i \in {j \in 1..Len(files) :
                          /\ ModinfoRaises(files[j])
                          /\ \A k \in 1..(j - 1) : ~ModinfoRaises(files[k])}}

mods_list ==
    /\ pc = "mods_list"
    /\ \E mod_filename \in Orders({m \in Mods : folder[m] # "none"}),
          current_os \in {"Windows", "Linux"} :
         IF Len(mod_filename) = 0
         THEN \* lines 422-425: os.system("pause") waits for a key on Windows
              /\ waits' = IF current_os = "Windows" THEN waits \cup {"pause"} ELSE waits
              /\ pc' = "exit425"
              /\ UNCHANGED liste_mod_maj_filename
              /\ UNCHANGED errlog
         ELSE \* lines 581-583: extract_modinfo on every file of the list
              /\ liste_mod_maj_filename' = WithoutExcluded(mod_filename, mods_exclu)
              /\ errlog' = errlog \cup FirstRaising(liste_mod_maj_filename')
              /\ pc' = IF FirstRaising(liste_mod_maj_filename') # {}
                       THEN "crash406" ELSE "update_mods"
              /\ UNCHANGED waits
    /\ UNCHANGED <<argv, configfile, folder, force_update, disable_mod_dev,
                   gamever_limit, mods_exclu, idx, visited, attempted, removed,
                   requests, failed, mods_updated, nb_maj, pdf, gate>>

-----------------------------------------------------------------------------
(* VSUpdate.update_mods, lines 585-712 *)

\* update_mods_sort with the plain order of the names, as sort() of line 560
update_mods_sortPlain ==
    /\ pc = "update_mods"
    /\ liste_mod_maj_filename' = SortSeq(liste_mod_maj_filename, PlainBefore)
    /\ idx' = 1
    /\ pc' = "loop"
    /\ UNCHANGED <<argv, configfile, folder, force_update, disable_mod_dev,
                   gamever_limit, mods_exclu, visited, attempted, removed,
                   requests, errlog, failed, mods_updated, nb_maj, waits, pdf, gate>>

\* line 587: the list is sorted by casefolded name before the loop
update_mods_sort ==
    /\ pc = "update_mods"
    /\ liste_mod_maj_filename' = SortSeq(liste_mod_maj_filename, CasefoldBefore)
    /\ idx' = 1
    /\ pc' = "loop"
    /\ UNCHANGED <<argv, configfile, folder, force_update, disable_mod_dev,
                   gamever_limit, mods_exclu, visited, attempted, removed,
                   requests, errlog, failed, mods_updated, nb_maj, waits, pdf, gate>>

\* log_error inside compversion_local / compversion_first_min_version
\* (lines 456, 467), reached only when the prerelease test of line 626 passes
CompverLogged(dmd, limit, version_locale, online, tags) ==
    /\ online.valid
    /\ dmd = "false" \/ ~online.pre
    /\ ~first_min_ver(tags).raised
    /\ \/ compversion_local(version_locale, online) = NoCompver
       \/ compversion_first_min_version(limit, first_min_ver(tags)) = NoCompver

\* what the try block of one iteration does before a statement raises
ApiFailures == {"URLError", "ReadTimeout", "KeyError"}

DownloadOutcomes ==
    {"size_raised",          \* line 653/654: requests.get or int(None) raised
     "PermissionError",      \* line 677: os.remove, then sys.exit()
     "OSError",              \* line 676: os.remove raised another error
     "wget_raised",          \* line 681, after the old file is removed
     "changelog",            \* get_changelog returned the changelog
     "changelog_URLError",   \* line 528: caught in get_changelog, {} returned
     "changelog_ReadTimeout",\* line 526: caught in get_changelog, {} returned
     "changelog_raised"}     \* get_changelog raised anything else

\* requests sent to the download link for each outcome: requests.get of line
\* 653, then wget.download of line 681
FileRequests(dl) ==
    IF dl \in {"size_raised", "PermissionError", "OSError"} THEN 1 ELSE 2

\* requests sent to the page of the mod by get_changelog: urlopen of line 486,
\* then requests.get of line 487
PageRequests(dl) ==
    CASE dl \in {"size_raised", "PermissionError", "OSError", "wget_raised"} -> 0
      [] dl = "changelog_URLError" -> 1
      [] OTHER -> 2

\* ApiRequests with the request of line 603 sent a second time on a failure
ApiRequestsRetried(failure) == IF failure = "URLError" THEN 1 ELSE
                               IF failure = "none" THEN 2 ELSE 3

\* requests sent to the API URL of the mod: urlopen of line 601, then
\* requests.get of line 603
ApiRequests(failure) == IF failure = "URLError" THEN 1 ELSE 2

\* the old file is gone once os.remove returned
Removes(dl) == dl \notin {"size_raised", "PermissionError", "OSError"}

\* the new file is there once wget.download returned
Downloads(dl) == Removes(dl) /\ dl # "wget_raised"

\* lines 685-691 are reached when get_changelog returns
Records(dl) == dl \in {"changelog", "changelog_URLError", "changelog_ReadTimeout"}

\* the iteration ends in an except clause of lines 677-712
Raises(dl) == ~Records(dl)

\* an error is logged by an except clause of update_mods or get_changelog
LogsError(dl) == dl # "changelog"

\* the only outcome that leaves the loop: sys.exit() of line 679
Exits(dl) == dl = "PermissionError"

\* IterApiFailure without the except clauses of lines 692-706: the exception
\* leaves update_mods
IterApiFailureUncaught(m) ==
    \E failure \in ApiFailures :
       /\ requests' = [requests EXCEPT ![m].api = @ + ApiRequests(failure)]
       /\ failed' = failed \cup {m}
       /\ pc' = "uncaught"
       /\ UNCHANGED <<folder, attempted, removed, errlog, mods_updated, nb_maj>>

\* one iteration whose API request fails (lines 600-609)
IterApiFailure(m) ==
    \E failure \in ApiFailures :
       /\ requests' = [requests EXCEPT ![m].api = @ + ApiRequests(failure)]
       /\ errlog' = errlog \cup {m}
       /\ failed' = failed \cup {m}
       /\ pc' = "loop"
       /\ UNCHANGED <<folder, attempted, removed, mods_updated, nb_maj>>

\* What lines 590-651 can come to under given settings: the local version
\* read from the file (old), the version of the release (new), the decision
\* (d) and whether a comparison logged an error, for every local version and
\* every release of the bounded sets.
ReleaseCases ==
    [dmd \in Booleans, force \in Booleans, limit \in Limits |->
       {[old |-> version_locale, new |-> online,
         d |-> Decision(dmd, force, limit, version_locale, online, tags),
         logged |-> CompverLogged(dmd, limit, version_locale, online, tags)] :
          version_locale \in LocalVersions, online \in OnlineVersions,
          tags \in TagLists}]

\* one iteration that gets the release and does not download it
IterNoDownload(m) ==
    \E c \in ReleaseCases[disable_mod_dev, force_update, gamever_limit] :
       /\ c.d # "download"
       /\ requests' = [requests EXCEPT ![m].api = @ + ApiRequests("none")]
       /\ errlog' = IF c.d = "exception" \/ c.logged THEN errlog \cup {m} ELSE errlog
       /\ failed' = IF c.d = "exception" THEN failed \cup {m} ELSE failed
       /\ pc' = "loop"
       /\ UNCHANGED <<folder, attempted, removed, mods_updated, nb_maj>>

\* one iteration that enters the download branch (lines 652-691)
IterDownload(m) ==
    \E c \in ReleaseCases[disable_mod_dev, force_update, gamever_limit],
       dl \in DownloadOutcomes :
       /\ c.d = "download"
       /\ attempted' = attempted \cup {m}
       /\ requests' = [requests EXCEPT ![m] =
                          [api  |-> @.api + ApiRequests("none"),
                           file |-> @.file + FileRequests(dl),
                           page |-> @.page + PageRequests(dl)]]
       /\ removed' = IF Removes(dl) THEN removed \cup {m} ELSE removed
       /\ folder' = IF Downloads(dl) THEN [folder EXCEPT ![m] = "new"]
                    ELSE IF Removes(dl) THEN [folder EXCEPT ![m] = "none"]
                    ELSE folder
       /\ errlog' = IF LogsError(dl) THEN errlog \cup {m} ELSE errlog
       /\ failed' = IF Raises(dl) THEN failed \cup {m} ELSE failed
       /\ mods_updated' =
              IF Records(dl)
              THEN [mods_updated EXCEPT ![m] =
                       [set |-> TRUE, old |-> c.old, new |-> c.new,
                        log |-> IF dl = "changelog" THEN "full" ELSE "empty"]]
              ELSE mods_updated
       /\ nb_maj' = IF Records(dl) THEN nb_maj + 1 ELSE nb_maj
       /\ pc' = IF Exits(dl) THEN "exit679" ELSE "loop"

\* update_mods_iter handling a mod a second time when its iteration failed
update_mods_iterRetry ==
    /\ pc = "loop"
    /\ idx <= Len(liste_mod_maj_filename)
    /\ LET mod_maj == liste_mod_maj_filename[idx]
       IN  /\ \/ IterApiFailure(mod_maj)
              \/ IterNoDownload(mod_maj)
              \/ IterDownload(mod_maj)
           /\ visited' = Append(visited, mod_maj)
           /\ idx' = IF mod_maj \in failed' /\ mod_maj \notin failed THEN idx ELSE idx + 1
    /\ UNCHANGED <<argv, configfile, force_update, disable_mod_dev, gamever_limit,
                   mods_exclu, liste_mod_maj_filename, waits, pdf, gate>>

\* one turn of the loop of line 589: the next file of the list is handled
\* once, whatever the outcome
update_mods_iter ==
    /\ pc = "loop"
    /\ idx <= Len(liste_mod_maj_filename)
    /\ LET mod_maj == liste_mod_maj_filename[idx]
       IN  /\ \/ IterApiFailure(mod_maj)
              \/ IterNoDownload(mod_maj)
              \/ IterDownload(mod_maj)
           /\ visited' = Append(visited, mod_maj)
    /\ idx' = idx + 1
    /\ UNCHANGED <<argv, configfile, force_update, disable_mod_dev, gamever_limit,
                   mods_exclu, liste_mod_maj_filename, waits, pdf, gate>>

(* VSUpdate.resume, lines 714-775 *)

\* line 734 reads value[2]["url"] of every updated mod: KeyError on an empty
\* changelog
SummaryRaises ==
    nb_maj >= 1 /\ \E m \in Mods : mods_updated[m].set /\ mods_updated[m].log = "empty"

\* lines 757-775 call extract_modinfo on every excluded name: a name without
\* file is not read (is_zipfile False), and self.modinfo_content is still None
\* when no file was read before, so that line 406 raises UnboundLocalError;
\* so does an excluded file without name or version
ExcludedInfoRaises ==
    \/ /\ liste_mod_maj_filename = <<>>
       /\ mods_exclu # <<>>
       /\ folder[mods_exclu[1]] = "none"
    \/ FirstRaising(mods_exclu) # {}

resume ==
    /\ pc = "loop"
    /\ idx > Len(liste_mod_maj_filename)
    /\ pc' = IF SummaryRaises THEN "crash734"
             ELSE IF ExcludedInfoRaises THEN "crash406"
             ELSE "pdf"
    /\ errlog' = IF ~SummaryRaises /\ ExcludedInfoRaises
                 THEN errlog \cup FirstRaising(mods_exclu) ELSE errlog
    /\ UNCHANGED <<argv, configfile, folder, force_update, disable_mod_dev,
                   gamever_limit, mods_exclu, liste_mod_maj_filename, idx, visited,
                   attempted, removed, requests, failed, mods_updated,
                   nb_maj, waits, pdf, gate>>

(* main, lines 979-1035, ModInfo.get_infos / get_url and makepdf *)

\* makepdf: the file is written; an exception ends the run (line 931); a
\* PermissionError on writing is only logged (line 940)
MakepdfOutcomes == {"written", "raised", "PermissionError"}

\* MakesPdf without the test of line 989
MakesPdfUnasked(enters, make_pdf) == enters

\* the catalog is made when lines 980 and 989 both pass
MakesPdf(enters, make_pdf) == enters /\ make_pdf = "yes"

\* get_infos opens csvtemp.csv in append mode (line 821) and writes the row
\* of its file after the rows the file holds already
AppendRows(csv, listed) ==
    [m \in Mods |-> csv[m] + (IF m \in listed THEN 1 ELSE 0)]

\* Lines 989-1027 for a catalog p: the files of listed get a row each; unless
\* get_url left the run (stopped) makepdf is called, reads every row of the
\* csv (lines 908-911) and, unless it fails, writes the PDF.
Catalog(p, make_pdf, listed, stopped, outcome) ==
    LET csv == AppendRows(p.csv, listed)
    IN  [make_pdf |-> make_pdf,
         rows     |-> Cardinality(listed),
         called   |-> ~stopped,
         written  |-> ~stopped /\ outcome = "written",
         csv      |-> csv,
         table    |-> IF ~stopped /\ outcome = "written" THEN csv ELSE p.table]

\* get_url for the files of the folder: no API answer lacks a key
NoKeyError(files) == [keyerror |-> FALSE, continue |-> "yes", listed |-> files]

\* get_url for the files of the folder (lines 836-866): no KeyError; a
\* KeyError and the answer yes at "Continue?"; a KeyError and the answer no,
\* the files handled before that one being listed
GetUrlOutcomes(files) ==
    {NoKeyError(files)}
    \cup {[keyerror |-> TRUE, continue |-> "yes", listed |-> files] :
             m \in files}
    \cup {[keyerror |-> TRUE, continue |-> "no", listed |-> before] :
             before \in (SUBSET files) \ {files}}

\* make_pdf stays None unless the user is asked (line 983). When it is yes:
\* one csv row per file of the folder; get_url asks "Continue?" when the API
\* answer of a file lacks a key (keyerror) and leaves on "no" with the rows of
\* the files before that one written (lines 858-866); then makepdf and the
\* exit prompt of line 1030.
main_pdf ==
    /\ pc = "pdf"
    /\ LET enters == args.nopause = "false" \/ args.makepdf = "true"
           asked  == enters /\ args.makepdf = "false"
           files  == {m \in Mods : folder[m] # "none"}
       IN  \E answer \in {"yes", "no"}, g \in GetUrlOutcomes(files),
              outcome \in MakepdfOutcomes :
             LET make_pdf == IF asked THEN answer ELSE "None"
                 keyerror == g.keyerror
                 stopped  == g.keyerror /\ g.continue = "no"
                 listed   == g.listed
             IN  \* the choices that are not used take one value
                 /\ MakesPdf(enters, make_pdf)
                      \/ (g = NoKeyError(files) /\ outcome = "written")
                 /\ stopped => outcome = "written"
                 /\ IF MakesPdf(enters, make_pdf)
                    THEN /\ pdf' = Catalog(pdf, make_pdf, listed, stopped, outcome)
                         /\ waits' = waits \cup {"makePDF"}
                                     \cup (IF keyerror THEN {"Continue?"} ELSE {})
                                     \cup (IF ~stopped /\ outcome # "raised"
                                              /\ args.makepdf = "false"
                                           THEN {"exiting_script"} ELSE {})
                         /\ pc' = IF stopped THEN "exit866"
                                  ELSE IF outcome = "raised" THEN "exit931"
                                  ELSE "done"
                    ELSE /\ pdf' = [pdf EXCEPT !.make_pdf = make_pdf]
                         /\ waits' = IF asked THEN waits \cup {"makePDF"} ELSE waits
                         /\ pc' = "done"
    /\ UNCHANGED <<argv, configfile, folder, force_update, disable_mod_dev,
                   gamever_limit, mods_exclu, liste_mod_maj_filename, idx, visited,
                   attempted, removed, requests, errlog, failed, mods_updated,
                   nb_maj, gate>>

Next ==
    \/ VSUpdate_init
    \/ main_modspath
    \/ mods_exclusion
    \/ mods_list
    \/ update_mods_sort
    \/ update_mods_iter
    \/ resume
    \/ main_pdf

Spec == Init /\ [][Next]_vars

\* Unattended runs of an installation that has its config.ini: --nopause
\* true, no --makepdf, no --exclusion, any choice of the two other flags.
InitPass ==
    /\ Init
    /\ argv.nopause = "true" /\ argv.makepdf = "false" /\ argv.exclusion = <<>>
    /\ configfile.exists

\* The program is sequential: while a step can be taken, one is taken (every
\* request and file operation returns or raises).
SpecPass == InitPass /\ [][Next]_vars /\ WF_vars(Next)

-----------------------------------------------------------------------------
(* The update decision on its own *)

\* every setting, local version and release of the bounded sets
InitGate ==
    /\ pc = "gate"
    /\ argv = [nopause |-> "false", makepdf |-> "false", forceupdate |-> NotGiven,
               disable_mod_dev |-> NotGiven, exclusion |-> <<>>]
    /\ configfile = NoFile
    /\ folder = [m \in Mods |-> "none"]
    /\ Fresh
    /\ gate \in [dmd : Booleans, force : Booleans, limit : Limits,
                 version_locale : LocalVersions, online : OnlineVersions,
                 tags : TagLists, game : {NoCompver}, result : {"pending"}]

\* result_game_compare_version of line 640, when the line is reached
GameCompare(dmd, limit, online, tags) ==
    IF online.valid /\ (dmd = "false" \/ ~online.pre) /\ ~first_min_ver(tags).raised
    THEN compversion_first_min_version(limit, first_min_ver(tags))
    ELSE NoCompver

gate_decide ==
    /\ pc = "gate"
    /\ gate.result = "pending"
    /\ gate' = [gate EXCEPT
                  !.game = GameCompare(gate.dmd, gate.limit, gate.online, gate.tags),
                  !.result = Decision(gate.dmd, gate.force, gate.limit,
                                      gate.version_locale, gate.online, gate.tags)]
    /\ UNCHANGED <<pc, argv, configfile, folder, force_update, disable_mod_dev,
                   gamever_limit, mods_exclu, liste_mod_maj_filename, idx, visited,
                   attempted, removed, requests, errlog, failed, mods_updated, nb_maj,
                   waits, pdf>>

NextGate == gate_decide

SpecGate == InitGate /\ [][NextGate]_vars

-----------------------------------------------------------------------------
(* Properties of the update decision (SpecGate) *)

Decided == pc = "gate" /\ gate.result \in {"download", "skip", "exception"}

\* semantic-version precedence: a is strictly lower than b
StrictlyLower(a, b) == a.n < b.n \/ (a.n = b.n /\ a.pre /\ ~b.pre)

\* the numbers of a game version "x.y.z"
Numbers(g) == <<g[1][2], g[2][2], g[3][2]>>

\* x.y.z is lower than or equal to x'.y'.z'
NotAbove(a, b) ==
    \/ a[1] < b[1]
    \/ a[1] = b[1] /\ a[2] < b[2]
    \/ a[1] = b[1] /\ a[2] = b[2] /\ a[3] <= b[3]

\* a tag "v" + three elements, a limit of three elements
UsableTag(t) == t.v /\ Len(t.ver) >= 3

AllUsable(tags) == Len(tags) > 0 /\ \A i \in 1..Len(tags) : UsableTag(tags[i])

UsableLimit(l) == Len(l) >= 3

\* the lowest game version among the tags of a release
LowestTag(tags) ==
    LET vs == {Numbers(tags[i].ver) : i \in 1..Len(tags)}
    IN  CHOOSE g \in vs : \A h \in vs : NotAbove(g, h)

\* the prerelease test lets the release through
DevAllowed == gate.dmd = "false" \/ ~gate.online.pre

\* C1: with force_update false the release is downloaded if and only if the
\* local version is strictly lower than the online one, the game version the
\* release requires (the lowest of its tags) is not above the limit, and
\* disable_mod_dev is false or the release is no prerelease.
C1_DownloadIff ==
    (/\ Decided
     /\ gate.force = "false"
     /\ gate.version_locale.valid /\ gate.online.valid
     /\ AllUsable(gate.tags) /\ UsableLimit(gate.limit))
    => (gate.result = "download"
        <=> /\ StrictlyLower(gate.version_locale, gate.online)
            /\ NotAbove(LowestTag(gate.tags), Numbers(gate.limit))
            /\ DevAllowed)

C8_GateIsLowestTag ==
    Decided =>
      /\ (gate.online.valid /\ DevAllowed /\ AllUsable(gate.tags) /\ UsableLimit(gate.limit))
         => (gate.game \in {-1, 0}
             <=> NotAbove(LowestTag(gate.tags), Numbers(gate.limit)))
      /\ (AllUsable(gate.tags) /\ UsableLimit(gate.limit)
          /\ ~NotAbove(LowestTag(gate.tags), Numbers(gate.limit)))
         => gate.result # "download"
      /\ (\A i \in 1..Len(gate.tags) : ~UsableTag(gate.tags[i]))
         => gate.result # "download"

\* The prerelease test for the value update_mods reads (self.disable_mod_dev):
\* with "true" a prerelease is never downloaded (nor its local file deleted:
\* line 676 is in the same branch); with "false" the download depends on the
\* two comparisons and force_update only.
PrereleaseGateOfValueRead ==
    Decided =>
      /\ (gate.dmd = "true" /\ gate.online.valid /\ gate.online.pre)
         => gate.result = "skip"
      /\ (gate.dmd = "false" /\ gate.online.valid /\ ~first_min_ver(gate.tags).raised)
         => (gate.result = "download"
             <=> /\ gate.game \in {-1, 0}
                 /\ \/ StrictlyLower(gate.version_locale, gate.online)
                       /\ gate.version_locale.valid
                    \/ gate.version_locale = gate.online /\ gate.force = "true")

-----------------------------------------------------------------------------
(* Properties of the run (Spec) *)

\* update_mods was entered and its loop is over
LoopLeft == idx >= 1 /\ pc # "loop"

\* the run passed VSUpdate.__init__
Constructed == force_update # "unset"

\* C2 as claimed: every failure of an iteration, the old file not being
\* removable included, is logged and skipped, and the rest of the list is
\* still handled.
C2_AnyFailureContinues ==
    /\ failed \subseteq errlog
    /\ \A m \in failed : ~mods_updated[m].set
    /\ LoopLeft => visited = liste_mod_maj_filename

\* C2 amended: every failure of an iteration is logged and the mod is not
\* recorded as updated; unless os.remove raised PermissionError (the run then
\* ends at line 679, in the iteration of that mod, its file kept), the loop
\* goes on to the end of the list.
C2_FailureContinuesUnlessPermission ==
    /\ failed \subseteq errlog
    /\ \A m \in failed : ~mods_updated[m].set
    /\ (LoopLeft /\ pc # "exit679") => visited = liste_mod_maj_filename
    /\ pc = "exit679" =>
         /\ Len(visited) >= 1
         /\ visited = SubSeq(liste_mod_maj_filename, 1, Len(visited))
         /\ LET last == visited[Len(visited)]
            IN  last \in failed /\ last \in attempted /\ folder[last] = "old"

\* a mod handled after the iteration of another mod failed
C2_Witness ==
    /\ LoopLeft /\ pc # "exit679"
    /\ Len(visited) >= 2
    /\ visited[1] \in failed
    /\ visited = liste_mod_maj_filename

\* C3: with --makepdf true the run that ends has made the PDF, one row for
\* every file of the folder, and has not asked the user.
C3_MakepdfTrueMakesPdf ==
    (pc = "done" /\ args.makepdf = "true")
    => /\ pdf.called
       /\ pdf.written
       /\ pdf.rows = Cardinality({m \in Mods : folder[m] # "none"})
       /\ "makePDF" \notin waits

\* C5: a flag that is not given leaves the value of config.ini in effect.
C5_ConfigValueInEffect ==
    Constructed =>
      /\ argv.forceupdate = NotGiven => force_update = configfile.force_update
      /\ argv.disable_mod_dev = NotGiven => disable_mod_dev = configfile.disable_mod_dev

\* the non-empty entries of [Mod_Exclusion] of config.ini
Excluded == {m \in Mods : configfile.exists /\ m \in Range(configfile.exclusion)}

\* C6: a file listed in [Mod_Exclusion] is never deleted nor downloaded by
\* update_mods, also under force update.
C6_ExcludedUntouched ==
    \A m \in Excluded :
       /\ m \notin attempted
       /\ m \notin removed
       /\ m \notin Range(visited)
       /\ folder[m] # "new"

\* update_mods ran to its end under force update, downloaded a mod and left
\* the excluded file alone
C6_Witness ==
    /\ LoopLeft /\ pc # "exit679"
    /\ force_update = "true"
    /\ \E m \in Excluded : folder[m] = "old"
    /\ \E m \in Mods : folder[m] = "new"

\* C7: the names given with --exclusion are left out of the update, with or
\* without a config.ini.
C7_ExclusionArgumentExcludes ==
    \A m \in Range(args.exclusion) : m \notin Range(visited) /\ m \notin attempted

\* C9: when disable_mod_dev is true, by --disable_mod_dev or, the flag not
\* given, by config.ini, no prerelease is downloaded in place of a local file.
C9_DisableModDevGate ==
    (Constructed
     /\ \/ argv.disable_mod_dev = "true"
        \/ argv.disable_mod_dev = NotGiven /\ configfile.disable_mod_dev = "true")
    => \A m \in Mods : mods_updated[m].set => ~mods_updated[m].new.pre

\* C10: with --nopause true the run never waits for the user.
C10_NopauseNeverWaits == args.nopause = "true" => waits = {}

-----------------------------------------------------------------------------
(* Requests of update_mods *)

\* C11 as claimed: every mod of the update list is handled with one request,
\* sent to its API URL, and no request to another address.
C11_OneRequestOneEndpoint ==
    \A m \in Range(visited) : requests[m] = [api |-> 1, file |-> 0, page |-> 0]

\* C11 amended: a handled mod got one request to its API URL when the first
\* one (urlopen) failed and two otherwise; only a mod that reached the
\* download branch got requests to other addresses: one or two to the
\* download link and up to two to its page; a mod not handled got none.
C11_RequestsPerMod ==
    \A m \in Mods :
       /\ m \notin Range(visited) => requests[m] = NoRequests
       /\ m \in Range(visited) =>
            /\ requests[m].api \in {1, 2}
            /\ m \notin attempted => requests[m].file = 0 /\ requests[m].page = 0
            /\ m \in attempted =>
                 /\ requests[m].api = 2
                 /\ requests[m].file \in {1, 2}
                 /\ requests[m].page \in 0..2
                 /\ requests[m].page > 0 => requests[m].file = 2
                 /\ folder[m] = "new" => requests[m].file = 2

\* a mod downloaded with its changelog: six requests to three addresses
C11_Witness ==
    \E m \in Range(visited) :
       /\ mods_updated[m].set
       /\ requests[m] = [api |-> 2, file |-> 2, page |-> 2]

-----------------------------------------------------------------------------
(* No retry *)

\* C12: update_mods never handles a mod that it handled before in the run: a
\* step that sends one of its requests for a mod, attempts the download or
\* puts the mod on the list of handled mods finds it not handled yet, so that
\* a download is attempted at most once and a failed mod is not taken up
\* again.
C12_NoRetry ==
    [][/\ \A m \in Mods :
            (requests'[m] # requests[m] \/ m \in attempted' \ attempted)
            => m \notin Range(visited) /\ m \notin failed
       /\ visited' # visited =>
            /\ Len(visited') = Len(visited) + 1
            /\ SubSeq(visited', 1, Len(visited)) = visited
            /\ visited'[Len(visited')] \notin Range(visited)
       /\ \A m \in Mods : requests'[m].file <= 2 /\ requests'[m].file >= requests[m].file
      ]_vars

\* the download of the first mod failed and the loop went through the second
C12_Witness ==
    /\ Len(visited) = 2
    /\ visited[1] \in failed \cap attempted
    /\ visited[2] \notin failed
    /\ requests[visited[1]].file \in {1, 2}

-----------------------------------------------------------------------------
(* The catalog is optional *)

\* C13: makepdf is called only if --makepdf true was given or the user
\* answered yes at the makePDF prompt; with --nopause true and --makepdf
\* false, and after the answer no, nothing of the catalog is made.
C13_PdfOptional ==
    /\ pdf.called => (args.makepdf = "true" \/ pdf.make_pdf = "yes")
    /\ (args.nopause = "true" /\ args.makepdf = "false")
       => (pdf = NoPdf /\ "makePDF" \notin waits)
    /\ pdf.make_pdf = "no"
       => (~pdf.called /\ ~pdf.written /\ pdf.rows = 0)

\* the user answered yes and the PDF was written
C13_Witness ==
    /\ pc = "done"
    /\ pdf.make_pdf = "yes"
    /\ pdf.called /\ pdf.written
    /\ pdf.rows >= 1

-----------------------------------------------------------------------------
(* The file of a handled mod *)

\* C14: a mod that update_mods has handled still has a file in the mods
\* folder, the previous one or the downloaded one.
C14_HandledModHasFile ==
    \A m \in Range(visited) : folder[m] \in {"old", "new"}

-----------------------------------------------------------------------------
(* The catalog over several runs (SpecPdf) *)

\* Runs of the program on one installation, for what they leave in
\* temp/csvtemp.csv and what they put in the PDF. The runs are started without
\* arguments, the user answers yes at the makePDF prompt and every mod is up
\* to date, so that update_mods leaves the folder alone; between two runs the
\* user adds or removes a mod file, or deletes config.ini.

MaxCsvRows == 3     \* rows of one file name in csvtemp.csv

\* the script started without arguments
NoArguments ==
    [nopause |-> "false", makepdf |-> "false", forceupdate |-> NotGiven,
     disable_mod_dev |-> NotGiven, exclusion |-> <<>>]

\* a new installation: no config.ini, no temp folder
InitPdf ==
    /\ pc = "between"
    /\ argv = NoArguments
    /\ configfile = NoFile
    /\ folder \in [Mods -> {"old", "none"}]
    /\ gate = NoGate
    /\ Fresh

\* what the runs of SpecPdf leave alone
UnchangedByCatalog ==
    UNCHANGED <<argv, force_update, disable_mod_dev, gamever_limit, mods_exclu,
                liste_mod_maj_filename, idx, visited, attempted, removed, requests,
                errlog, failed, mods_updated, nb_maj, waits, gate>>

\* a run that goes to the catalog (main, lines 989-1027); a first launch
\* writes config.ini before (line 128)
run_catalog ==
    /\ pc \in {"between", "made"}
    /\ \A m \in Mods : pdf.csv[m] < MaxCsvRows
    /\ LET files == {m \in Mods : folder[m] # "none"}
       IN  \E g \in GetUrlOutcomes(files), outcome \in MakepdfOutcomes :
             pdf' = Catalog(pdf, "yes", g.listed,
                            g.keyerror /\ g.continue = "no", outcome)
    /\ configfile' = IF configfile.exists THEN configfile ELSE set_config_ini
    /\ pc' = "made"
    /\ UNCHANGED folder
    /\ UnchangedByCatalog

\* a first launch that the user leaves at the prompt of line 180: config.ini
\* is written and the temp folder removed (lines 188-190)
run_first_launch_exit ==
    /\ pc \in {"between", "made"}
    /\ ~configfile.exists
    /\ args.nopause = "false"
    /\ configfile' = set_config_ini
    /\ pdf' = [pdf EXCEPT !.csv = NoRows]
    /\ pc' = "between"
    /\ UNCHANGED folder
    /\ UnchangedByCatalog

\* between two runs the user adds a mod file to the folder or removes one
folder_change ==
    /\ pc \in {"between", "made"}
    /\ \E m \in Mods :
         folder' = [folder EXCEPT ![m] = IF @ = "none" THEN "old" ELSE "none"]
    /\ pc' = "between"
    /\ UNCHANGED <<configfile, pdf>>
    /\ UnchangedByCatalog

\* between two runs the user deletes config.ini
config_deleted ==
    /\ pc \in {"between", "made"}
    /\ configfile.exists
    /\ configfile' = NoFile
    /\ pc' = "between"
    /\ UNCHANGED <<folder, pdf>>
    /\ UnchangedByCatalog

NextPdf ==
    \/ run_catalog
    \/ run_first_launch_exit
    \/ folder_change
    \/ config_deleted

SpecPdf == InitPdf /\ [][NextPdf]_vars

\* C15: the table of a PDF that a run has written holds one row for every
\* file of the mods folder and no other row, whatever earlier runs did.
C15_OneRowPerFile ==
    (pc = "made" /\ pdf.written)
    => \A m \in Mods : pdf.table[m] = (IF folder[m] # "none" THEN 1 ELSE 0)

-----------------------------------------------------------------------------
(* The summary *)

\* resume has returned
Summarised == pc \in {"pdf", "done", "exit866", "exit931"}

\* C16: resume does not fail on a mod whose changelog could not be retrieved,
\* and once it has returned every mod downloaded in the run is in the summary
\* with its old and its new version.
C16_SummaryReportsDownloads ==
    /\ pc # "crash734"
    /\ Summarised =>
         \A m \in Mods :
            folder[m] = "new" =>
               /\ mods_updated[m].set
               /\ mods_updated[m].old \in LocalVersions
               /\ mods_updated[m].new \in OnlineVersions

-----------------------------------------------------------------------------
(* Metadata that cannot be extracted *)

\* C17: with a file in the mods folder whose modinfo.json has no name or no
\* version, extract_modinfo does not end the run (no exception leaves it at
\* line 406), and once the loop of update_mods is over the error of that file
\* is logged.
C17_BadModinfoSkipped ==
    \A m \in Mods :
       folder[m] = "bad" =>
          /\ pc # "crash406"
          /\ LoopLeft => m \in errlog

-----------------------------------------------------------------------------
(* The pass of update_mods (SpecPass) *)

\* the loop of update_mods has handled the first files of its list in the
\* order of the list, and the list is in casefold order without repetition
PassInOrder ==
    idx >= 1 =>
       /\ idx = Len(visited) + 1
       /\ visited = SubSeq(liste_mod_maj_filename, 1, Len(visited))
       /\ \A i, j \in 1..Len(liste_mod_maj_filename) :
             i < j => /\ liste_mod_maj_filename[i] # liste_mod_maj_filename[j]
                      /\ ~CasefoldBefore(liste_mod_maj_filename[j],
                                         liste_mod_maj_filename[i])

\* C18 as claimed: when update_mods is left, whatever the failures, every
\* file of the update list was visited exactly once, in the order of the
\* list.
C18_EveryFileVisitedOnce ==
    /\ PassInOrder
    /\ LoopLeft =>
         \A m \in Range(liste_mod_maj_filename) :
            Cardinality({i \in 1..Len(visited) : visited[i] = m}) = 1

\* C18 amended: update_mods visits the files of its list in casefold order,
\* none twice, and it always comes to an end; it has then visited every file
\* of the list unless os.remove raised PermissionError, which ends the run
\* in the iteration of that file (line 679).
C18_BoundedSinglePass ==
    /\ []PassInOrder
    /\ []((LoopLeft /\ pc # "exit679") => Len(visited) = Len(liste_mod_maj_filename))
    /\ [](pc = "exit679" => Len(visited) <= Len(liste_mod_maj_filename))
    /\ (pc = "update_mods") ~> (pc \notin {"update_mods", "loop"})

\* both files were visited, in casefold order, and both downloads attempted
C18_Witness ==
    /\ pc = "done"
    /\ visited = <<"a.zip", "B.zip">>
    /\ attempted = Mods

====
